---- MODULE Spec2Model ----
(***************************************************************************)
(* IndiGround Operations Command Center: the turnaround estimator          *)
(* (calcPrediction), the database seed, and the fuel-crisis engine         *)
(* (POST /api/crisis/activate, POST /api/crisis/deactivate and the derived *)
(* views) of server/routes.ts over the tables of shared/schema.ts and the  *)
(* registry of server/storage.ts.                                          *)
(*                                                                         *)
(* Time is counted in whole minutes.  The durations are Math.round of a    *)
(* decimal expression; Round computes that rounding exactly on rationals,  *)
(* and every quantity enumerated below is one on which the IEEE double     *)
(* evaluation of the source gives the same integer.                        *)
(***************************************************************************)
EXTENDS Integers, Sequences, FiniteSets, TLC

\* ------------------------------------------------------------------ bounds
MaxTicks   == 1     \* clock advances the model explores
MaxRosters == 2     \* roster syntheses (serial ids are never reused)
MaxImports == 1     \* rows imported through POST /api/flights/import
MaxStarted == 3     \* requests started in the interleaved specification

\* --------------------------------------------------------------- constants
NULL        == 0 - 1          \* SQL NULL / undefined of an integer column
NoText      == "null"         \* SQL NULL of a text column
BootTime    == 300            \* clock value at start-up, minutes
TickMinutes == 50             \* one clock advance, minutes

\* ------------------------------------------------------------ pure helpers
Max(a, b) == IF a > b THEN a ELSE b
Min(a, b) == IF a < b THEN a ELSE b

\* Math.round(n / d) for d > 0: nearest integer, halves towards +infinity
Round(n, d) == (2 * n + d) \div (2 * d)

RECURSIVE SumSeq(_)
SumSeq(s) == IF s = <<>> THEN 0 ELSE Head(s) + SumSeq(Tail(s))

\* Array.prototype.slice(0, n)
Slice(s, n) == SubSeq(s, 1, Min(n, Len(s)))

\* ------------------------------------------------------------- estimator
BaggageDuration(f) == Round(15 * f.bagsCount + 10 * f.priorityBags, 100)
\* the hydrant rate mistyped as 0.02
HydrantFuelDuration_rate(f) == Round(2 * f.fuelLiters, 100)
HydrantFuelDuration(f) == Round(2 * f.fuelLiters, 1000)
ManualFuelDuration(f) == Round(f.fuelLiters, 500)
CateringDuration(f) ==
  IF f.cateringRequired THEN Round(8 * f.mealsQty + 10 * f.specialMeals, 100) ELSE 0
SafetyCheckDuration(f) == IF f.safetyCheck THEN 15 ELSE 0
TargetTat(f) == IF f.aircraftType = "Wide" THEN 60 ELSE 35

\* the bottleneck chosen with >= : the later candidate wins a tie
Bottleneck_lateTie(baggage, fuel, catering) ==
  LET b1 == IF fuel >= baggage THEN "FUEL" ELSE "BAGGAGE"
      m1 == IF fuel >= baggage THEN fuel ELSE baggage
  IN IF catering >= m1 THEN "CATERING" ELSE b1

\* let bottleneck = "BAGGAGE"; if (fuelDuration > maxDur) ...; if (cateringDuration > maxDur) ...
Bottleneck(baggage, fuel, catering) ==
  LET b1 == IF fuel > baggage THEN "FUEL" ELSE "BAGGAGE"
      m1 == IF fuel > baggage THEN fuel ELSE baggage
  IN IF catering > m1 THEN "CATERING" ELSE b1

\* the estimator without the fixed base pad
calcPrediction_noPad(f) ==
  LET baggageDuration     == BaggageDuration(f)
      fuelDuration        == HydrantFuelDuration(f)
      cateringDuration    == CateringDuration(f)
      safetyCheckDuration == SafetyCheckDuration(f)
      predictedTat == baggageDuration + fuelDuration + cateringDuration
                      + safetyCheckDuration
      delay == Max(0, predictedTat - TargetTat(f))
  IN [ predictedTat |-> predictedTat,
       bottleneck |-> Bottleneck(baggageDuration, fuelDuration, cateringDuration),
       penaltyRisk |-> delay * 5400,
       baggageDuration |-> baggageDuration,
       fuelDuration |-> fuelDuration,
       cateringDuration |-> cateringDuration,
       safetyCheckDuration |-> safetyCheckDuration ]

\* const predictedTat = ...; bottleneck by strict comparison; delay * 5400
calcPrediction(f) ==
  LET baggageDuration     == BaggageDuration(f)
      fuelDuration        == HydrantFuelDuration(f)
      cateringDuration    == CateringDuration(f)
      safetyCheckDuration == SafetyCheckDuration(f)
      predictedTat == baggageDuration + fuelDuration + cateringDuration
                      + safetyCheckDuration + 10
      delay == Max(0, predictedTat - TargetTat(f))
  IN [ predictedTat |-> predictedTat,
       bottleneck |-> Bottleneck(baggageDuration, fuelDuration, cateringDuration),
       penaltyRisk |-> delay * 5400,
       baggageDuration |-> baggageDuration,
       fuelDuration |-> fuelDuration,
       cateringDuration |-> cateringDuration,
       safetyCheckDuration |-> safetyCheckDuration ]

\* ---------------------------------------------------------------- tables
\* A row of the flights table as createFlight inserts it: the columns the
\* caller leaves out take their defaults (penaltyRatePerMin 5400, the
\* prediction, gate and queue columns NULL).
NewFlight(id, p) ==
  [ id |-> id, flightNumber |-> p.flightNumber, aircraftType |-> p.aircraftType,
    arrivalTime |-> p.arrivalTime, fuelLiters |-> p.fuelLiters,
    bagsCount |-> p.bagsCount, priorityBags |-> p.priorityBags,
    mealsQty |-> p.mealsQty, specialMeals |-> p.specialMeals,
    cateringRequired |-> p.cateringRequired, safetyCheck |-> p.safetyCheck,
    status |-> p.status, penaltyRatePerMin |-> p.penaltyRatePerMin,
    predictedTat |-> NULL, bottleneck |-> NoText, penaltyRisk |-> NULL,
    gateId |-> NULL, fuelQueuePosition |-> NULL, fuelStartTime |-> NULL ]

\* flight parameters; off is the arrival offset from the caller's now
P(num, type, off, fuel, bags, prio, meals, special, catering, safety, rate, status) ==
  [ flightNumber |-> num, aircraftType |-> type, offset |-> off,
    fuelLiters |-> fuel, bagsCount |-> bags, priorityBags |-> prio,
    mealsQty |-> meals, specialMeals |-> special,
    cateringRequired |-> catering, safetyCheck |-> safety,
    penaltyRatePerMin |-> rate, status |-> status ]

getRealFlights ==
  << P("AM-1001-031", "Narrow", 0 - 5,   7048,  123, 14, 151, 7,  TRUE,  TRUE,  5400, "SCHEDULED"),
     P("AM-1001-063", "Narrow", 0 - 10,  12489, 90,  10, 199, 17, TRUE,  TRUE,  5400, "SCHEDULED"),
     P("AM-1001-098", "Narrow", 0 - 8,   13836, 76,  8,  151, 7,  TRUE,  TRUE,  5400, "SCHEDULED"),
     P("DL-1002-010", "Narrow", 0 - 15,  8200,  110, 12, 165, 9,  TRUE,  TRUE,  5400, "SCHEDULED"),
     P("DL-1002-012", "Wide",   45,      15200, 245, 22, 248, 14, TRUE,  TRUE,  5400, "SCHEDULED"),
     P("WN-1003-001", "Narrow", 90,      6100,  95,  6,  140, 5,  TRUE,  TRUE,  5400, "SCHEDULED"),
     P("WN-1003-075", "Narrow", 0 - 240, 5800,  88,  5,  130, 3,  FALSE, TRUE,  5400, "COMPLETED"),
     P("UA-1004-059", "Wide",   0 - 120, 14500, 260, 25, 262, 16, TRUE,  TRUE,  5400, "COMPLETED"),
     P("UA-1004-112", "Narrow", 0 - 180, 7300,  105, 9,  158, 8,  TRUE,  FALSE, 5400, "COMPLETED"),
     P("DL-1005-088", "Narrow", 0 - 300, 9100,  130, 15, 175, 11, TRUE,  TRUE,  5400, "COMPLETED"),
     P("INT-1015-003", "Wide",  0 - 20,  42000, 309, 25, 280, 20, TRUE,  TRUE,  15000, "DIVERTED"),
     P("INT-1015-004", "Wide",  0 - 10,  45000, 437, 25, 329, 20, TRUE,  TRUE,  15000, "DIVERTED"),
     P("INT-1015-002", "Wide",  0 - 5,   46000, 342, 25, 261, 20, TRUE,  TRUE,  15000, "DIVERTED") >>

\* the roster POST /api/crisis/activate synthesizes
divertedFlights ==
  << P("INT-1015-003", "Wide", 0 - 25, 42000, 309, 25, 280, 20, TRUE, TRUE, 15000, "DIVERTED"),
     P("INT-1015-004", "Wide", 0 - 10, 45000, 437, 25, 329, 20, TRUE, TRUE, 15000, "DIVERTED"),
     P("INT-1015-002", "Wide", 0 - 8,  46000, 342, 25, 261, 20, TRUE, TRUE, 15000, "DIVERTED"),
     P("INT-1015-001", "Wide", 95,     48000, 410, 25, 305, 20, TRUE, TRUE, 15000, "DIVERTED"),
     P("INT-1015-000", "Wide", 144,    44000, 412, 25, 327, 20, TRUE, TRUE, 15000, "DIVERTED") >>

\* the international gates taken from the far end
intGateNames_reversed == << "G7", "G6", "G5" >>

intGateNames == << "G5", "G6", "G7" >>
GateName(i) == << "G1", "G2", "G3", "G4", "G5", "G6", "G7", "G8" >>[i]
offsets == << 5, 10, 8, 15, 12, 7, 3, 20 >>

\* the rows a client uploads to POST /api/flights/import
ImportRows ==
  { P("IM-0001", "Narrow", 30, 5000, 100, 0, 100, 0, TRUE, TRUE, 5400, "SCHEDULED"),
    P("IM-0002", "Wide",   0,  7000, 200, 20, 0, 0, FALSE, FALSE, 5400, "ACTIVE") }

WithArrival(p, t) ==
  [ k \in (DOMAIN p \ {"offset"}) \cup {"arrivalTime"} |->
      IF k = "arrivalTime" THEN t + p.offset ELSE p[k] ]

\* ------------------------------------------------------------- registry
\* The registry is the record w = [flights, gates, crisis, nextId]: the three
\* tables in the order a select returns their rows, and the flights serial.
EmptyDb == [ flights |-> <<>>, gates |-> <<>>, crisis |-> <<>>, nextId |-> 1 ]

\* DatabaseStorage.createFlight
createFlight(w, p) ==
  [w EXCEPT !.flights = Append(@, NewFlight(w.nextId, p)), !.nextId = @ + 1]

\* DatabaseStorage.updateFlight: merges the given columns into the row with
\* that id; no row, no change
updateFlight(w, id, updates) ==
  [w EXCEPT !.flights =
     [ i \in 1..Len(@) |-> IF @[i].id = id THEN updates @@ @[i] ELSE @[i] ]]

\* an update of a gate that writes the status column only
updateGate_statusOnly(w, id, updates) ==
  [w EXCEPT !.gates =
     [ i \in 1..Len(@) |-> IF @[i].id = id
                           THEN [status |-> updates.status] @@ @[i] ELSE @[i] ]]

\* DatabaseStorage.updateGate
updateGate(w, id, updates) ==
  [w EXCEPT !.gates =
     [ i \in 1..Len(@) |-> IF @[i].id = id THEN updates @@ @[i] ELSE @[i] ]]

\* DatabaseStorage.createGate
createGate(w, g) ==
  [w EXCEPT !.gates =
     Append(@, [ id |-> Len(@) + 1, gateNumber |-> g.gateNumber,
                 status |-> g.status, currentFlightId |-> NULL ])]

\* only the diverted flights already standing at a gate count
IsDiverted_atGate(f) == f.status = "DIVERTED" /\ f.gateId # NULL

\* eq(flights.status, "DIVERTED")
IsDiverted(f) == f.status = "DIVERTED"
IsScheduled(f) == f.status = "SCHEDULED"
IsActive(f) == f.status = "ACTIVE"

IsFuelQueue(f) == f.status = "FUEL_QUEUE"

\* getDivertedFlights selecting on the other crisis status
getDivertedFlights_fuelQueue(w) == SelectSeq(w.flights, IsFuelQueue)

\* DatabaseStorage.getDivertedFlights
getDivertedFlights(w) == SelectSeq(w.flights, IsDiverted)

\* the select that never finds the record
getCrisisState_none(w) == NULL

\* DatabaseStorage.getCrisisState: the first row, or undefined
getCrisisState(w) == IF w.crisis = <<>> THEN NULL ELSE w.crisis[1].id

VARIABLES flights, gates, crisis, nextId,  \* the registry tables, flights serial
          now, ticks,                      \* the clock
          rosters, imports, started,       \* counters the bounds are stated on
          procs,                           \* the handlers in flight
          lastOp, prevOp,                  \* the last two completed writes
          resp                             \* the last response sent

vars == << flights, gates, crisis, nextId, now, ticks, rosters, imports, started,
           procs, lastOp, prevOp, resp >>

\* the connections two requests can be in flight on at once
Procs == {1, 2}

Db == [ flights |-> flights, gates |-> gates, crisis |-> crisis, nextId |-> nextId ]


\* ------------------------------------------------------------------ seed
RECURSIVE CreateGates(_, _)
CreateGates(w, i) ==
  IF i > 8 THEN w
  ELSE CreateGates(createGate(w, [gateNumber |-> GateName(i), status |-> "FREE"]), i + 1)

\* for (const f of realFlights): createFlight, calcPrediction, updateFlight
RECURSIVE SeedFlights(_, _, _)
SeedFlights(w, i, t) ==
  IF i > Len(getRealFlights) THEN w
  ELSE LET f    == WithArrival(getRealFlights[i], t)
           w1   == createFlight(w, f)
           pred == calcPrediction(f)
       IN SeedFlights(updateFlight(w1, w.nextId,
                        [ predictedTat |-> pred.predictedTat,
                          bottleneck |-> pred.bottleneck,
                          penaltyRisk |-> pred.penaltyRisk ]), i + 1, t)

\* the first four SCHEDULED flights go ACTIVE on dbGates[0..3]
RECURSIVE AssignScheduled(_, _, _, _)
AssignScheduled(w, scheduled, dbGates, i) ==
  IF i > Len(scheduled) THEN w
  ELSE LET w1 == updateFlight(w, scheduled[i].id, [status |-> "ACTIVE"])
           w2 == updateGate(w1, dbGates[i].id,
                            [status |-> "ACTIVE", currentFlightId |-> scheduled[i].id])
       IN AssignScheduled(w2, scheduled, dbGates, i + 1)

\* a lookup that answers with the gate after the one asked for
GateByName_shifted(gs, name) ==
  IF \E i \in 1..Len(gs) : gs[i].gateNumber = name
  THEN gs[CHOOSE i \in 1..Len(gs) :
            /\ gs[i].gateNumber = name
            /\ \A j \in 1..(i - 1) : gs[j].gateNumber # name].id + 1
  ELSE NULL

\* Map lookup / Array.find of a gate by its gateNumber: its id, or NULL
GateByName(gs, name) ==
  IF \E i \in 1..Len(gs) : gs[i].gateNumber = name
  THEN gs[CHOOSE i \in 1..Len(gs) :
            /\ gs[i].gateNumber = name
            /\ \A j \in 1..(i - 1) : gs[j].gateNumber # name].id
  ELSE NULL

\* the first three DIVERTED seed flights go to G5, G6, G7 on bowsers 1..3
RECURSIVE AssignDivertedSeed(_, _, _, _, _)
AssignDivertedSeed(w, divertedSeed, dbGates, i, t) ==
  IF i > Len(divertedSeed) THEN w
  ELSE LET flight == divertedSeed[i]
           gate   == GateByName(dbGates, intGateNames[i])
           tat    == Round(flight.fuelLiters, 500) + 60
           w1 == updateGate(w, gate,
                            [status |-> "ACTIVE", currentFlightId |-> flight.id])
           w2 == updateFlight(w1, flight.id,
                   [ gateId |-> gate, fuelQueuePosition |-> i, fuelStartTime |-> t,
                     bottleneck |-> "FUEL", predictedTat |-> tat,
                     penaltyRisk |-> Max(0, tat - 60) * 15000 ])
       IN AssignDivertedSeed(IF gate # NULL THEN w2 ELSE w, divertedSeed, dbGates, i + 1, t)

\* "Always refresh ACTIVE flight arrival times on startup"
RECURSIVE RefreshArrivals(_, _, _, _)
RefreshArrivals(w, activeFlights, i, t) ==
  IF i > Len(activeFlights) THEN w
  ELSE RefreshArrivals(
         updateFlight(w, activeFlights[i].id,
           [arrivalTime |-> t - (IF i <= Len(offsets) THEN offsets[i] ELSE 10)]),
         activeFlights, i + 1, t)

seedDatabase(w, t) ==
  LET w1 == IF Len(w.gates) = 0 THEN CreateGates(w, 1) ELSE w
      w2 == SeedFlights(w1, 1, t)
      allFlights == w2.flights
      scheduled  == Slice(SelectSeq(allFlights, IsScheduled), 4)
      dbGates    == w2.gates
      w3 == AssignScheduled(w2, scheduled, dbGates, 1)
      divertedSeed == Slice(SelectSeq(allFlights, IsDiverted), 3)
      w4 == AssignDivertedSeed(w3, divertedSeed, dbGates, 1, t)
      w5 == IF Len(w1.flights) = 0 THEN w4 ELSE w1
  IN RefreshArrivals(w5, SelectSeq(w5.flights, IsActive), 1, t)

\* ------------------------------------------------- request handlers
\* A handler in flight is a record l: its kind, the statement it resumes at
\* (pc; every statement with an await of the registry is one step), and its
\* local constants and loop variables.
Idle ==
  [ kind |-> "idle", pc |-> "idle", now |-> 0, existing |-> NULL,
    snap |-> <<>>, gsnap |-> <<>>, i |-> 0, slot |-> 0, created |-> NULL ]

StartOf(kind) == [Idle EXCEPT !.kind = kind, !.pc = "getCrisisState"]

\* db.update(crisisState).set(updates).where(eq(crisisState.id, id))
updateCrisis(w, id, active, t) ==
  [w EXCEPT !.crisis =
     [ i \in 1..Len(@) |->
         IF @[i].id = id
         THEN [@[i] EXCEPT !.fuelCrisisActive = active,
                           !.activatedAt = IF active THEN t ELSE @]
         ELSE @[i] ]]

\* db.insert(crisisState).values({fuelCrisisActive: true, bowserCount: 4, ...})
insertCrisis(w, t) ==
  [w EXCEPT !.crisis =
     Append(@, [ id |-> Len(@) + 1, fuelCrisisActive |-> TRUE, bowserCount |-> 4,
                 manualPumpSpeed |-> 500, activatedAt |-> t ])]

\* the prediction the roster loop stores for a synthesized flight
RosterPrediction(f) ==
  LET fuelDuration     == Round(f.fuelLiters, 500)
      baggageDuration  == Round(15 * f.bagsCount + 10 * f.priorityBags, 100)
      cateringDuration == Round(8 * f.mealsQty + 10 * f.specialMeals, 100)
      predictedTat == baggageDuration + fuelDuration + cateringDuration + 15 + 10
  IN [ predictedTat |-> predictedTat, bottleneck |-> "FUEL",
       penaltyRisk |-> Max(0, predictedTat - 60) * f.penaltyRatePerMin ]

\* the filter of the domestic queue loop of activate
IsDomestic(f) ==
  /\ f.status = "ACTIVE" \/ f.status = "SCHEDULED"
  /\ f.penaltyRatePerMin = 5400

\* the update activate stores for domesticFlights[i] (i counted from 0)
DomesticCrisisUpdate(f, i) ==
  LET fuelDuration        == Round(f.fuelLiters, 500)
      baggageDuration     == Round(15 * f.bagsCount + 10 * f.priorityBags, 100)
      cateringDuration    == CateringDuration(f)
      safetyCheckDuration == SafetyCheckDuration(f)
      queueWait    == i * fuelDuration
      predictedTat == baggageDuration + fuelDuration + cateringDuration
                      + safetyCheckDuration + 10 + queueWait
  IN [ predictedTat |-> predictedTat,
       penaltyRisk |-> Max(0, predictedTat - TargetTat(f)) * 5400,
       bottleneck |-> "FUEL", fuelQueuePosition |-> i + 1 ]

\* a landed roster flight takes the first bowser at hand, whatever slot is next
BowserAssignment_firstSlot(gateId, intBowserSlot, t) ==
  [ gateId |-> gateId, fuelQueuePosition |-> 1, fuelStartTime |-> t ]

\* db.update(flightsTable).set({gateId, fuelQueuePosition: intBowserSlot,
\*   fuelStartTime: new Date()})
BowserAssignment(gateId, intBowserSlot, t) ==
  [ gateId |-> gateId, fuelQueuePosition |-> intBowserSlot, fuelStartTime |-> t ]

\* after roster flight i: the next one, or on to the domestic queue
NextRoster(l) ==
  IF l.i = Len(divertedFlights) THEN [l EXCEPT !.pc = "getFlights"]
  ELSE [l EXCEPT !.i = @ + 1, !.pc = "createFlight"]

\* one step of POST /api/crisis/activate at clock t
ActivateStep(w, l, t) ==
  CASE l.pc = "getCrisisState" ->
         [ w |-> w,
           l |-> [l EXCEPT !.existing = getCrisisState(w), !.pc = "setCrisisState"] ]
    [] l.pc = "setCrisisState" ->
         [ w |-> IF l.existing # NULL THEN updateCrisis(w, l.existing, TRUE, t)
                 ELSE insertCrisis(w, t),
           l |-> [l EXCEPT !.now = t, !.pc = "getDivertedFlights"] ]
    [] l.pc = "getDivertedFlights" ->
         [ w |-> w,
           l |-> IF Len(getDivertedFlights(w)) = 0
                 THEN [l EXCEPT !.pc = "selectGates"]
                 ELSE [l EXCEPT !.pc = "getFlights"] ]
    [] l.pc = "selectGates" ->
         [ w |-> w,
           l |-> [l EXCEPT !.gsnap = w.gates, !.i = 1, !.slot = 1,
                           !.pc = "createFlight"] ]
    [] l.pc = "createFlight" ->
         [ w |-> createFlight(w, WithArrival(divertedFlights[l.i], l.now)),
           l |-> [l EXCEPT !.created = w.nextId, !.pc = "updatePrediction"] ]
    [] l.pc = "updatePrediction" ->
         LET f        == divertedFlights[l.i]
             isLanded == l.now + f.offset <= l.now
             gate     == GateByName(l.gsnap, intGateNames[l.slot])
         IN [ w |-> updateFlight(w, l.created, RosterPrediction(f)),
              l |-> IF isLanded /\ l.slot <= 3
                    THEN IF gate # NULL THEN [l EXCEPT !.pc = "assignGate"]
                         ELSE NextRoster([l EXCEPT !.slot = @ + 1])
                    ELSE NextRoster(l) ]
    [] l.pc = "assignGate" ->
         [ w |-> updateGate(w, GateByName(l.gsnap, intGateNames[l.slot]),
                            [status |-> "ACTIVE", currentFlightId |-> l.created]),
           l |-> [l EXCEPT !.pc = "assignBowser"] ]
    [] l.pc = "assignBowser" ->
         [ w |-> updateFlight(w, l.created,
                   BowserAssignment(GateByName(l.gsnap, intGateNames[l.slot]),
                                    l.slot, t)),
           l |-> NextRoster([l EXCEPT !.slot = @ + 1]) ]
    [] l.pc = "getFlights" ->
         LET domesticFlights == SelectSeq(w.flights, IsDomestic)
         IN [ w |-> w,
              l |-> [l EXCEPT !.snap = domesticFlights, !.i = 0,
                       !.pc = IF domesticFlights = <<>> THEN "done"
                              ELSE "updateDomestic"] ]
    [] l.pc = "updateDomestic" ->
         LET f == l.snap[l.i + 1]
         IN [ w |-> updateFlight(w, f.id, DomesticCrisisUpdate(f, l.i)),
              l |-> [l EXCEPT !.i = @ + 1,
                       !.pc = IF l.i + 1 = Len(l.snap) THEN "done"
                              ELSE "updateDomestic"] ]


\* the restore of deactivate leaving the stored bottleneck as it is
DomesticRestoreUpdate_noBottleneck(f) ==
  LET fuelDuration        == Round(2 * f.fuelLiters, 1000)
      baggageDuration     == Round(15 * f.bagsCount + 10 * f.priorityBags, 100)
      cateringDuration    == CateringDuration(f)
      safetyCheckDuration == SafetyCheckDuration(f)
      predictedTat == baggageDuration + fuelDuration + cateringDuration
                      + safetyCheckDuration + 10
      delay == Max(0, predictedTat - TargetTat(f))
  IN [ predictedTat |-> predictedTat, penaltyRisk |-> delay * 5400,
       fuelQueuePosition |-> NULL ]

\* the restore of deactivate for one ACTIVE or SCHEDULED flight
DomesticRestoreUpdate(f) ==
  LET fuelDuration        == Round(2 * f.fuelLiters, 1000)
      baggageDuration     == Round(15 * f.bagsCount + 10 * f.priorityBags, 100)
      cateringDuration    == CateringDuration(f)
      safetyCheckDuration == SafetyCheckDuration(f)
      predictedTat == baggageDuration + fuelDuration + cateringDuration
                      + safetyCheckDuration + 10
      delay == Max(0, predictedTat - TargetTat(f))
  IN [ predictedTat |-> predictedTat, penaltyRisk |-> delay * 5400,
       bottleneck |-> Bottleneck(baggageDuration, fuelDuration, cateringDuration),
       fuelQueuePosition |-> NULL ]

\* only the flight on the first bowser gives its gate back
HasGate_firstSlot(f) ==
  f.status = "DIVERTED" /\ f.gateId # NULL /\ f.gateId # 0 /\ f.fuelQueuePosition = 1

\* const divertedFlights = allFlights.filter(DIVERTED); if (f.gateId)
HasGate(f) == f.status = "DIVERTED" /\ f.gateId # NULL /\ f.gateId # 0
IsActiveOrScheduled(f) == f.status = "ACTIVE" \/ f.status = "SCHEDULED"
NotDiverted(f) == f.status # "DIVERTED"

\* db.update(flights).set({fuelQueuePosition: null, fuelStartTime: null})
\*   .where(eq(flights.status, "FUEL_QUEUE"))
clearFuelQueue(w) ==
  [w EXCEPT !.flights =
     [ i \in 1..Len(@) |->
         IF @[i].status = "FUEL_QUEUE"
         THEN [@[i] EXCEPT !.fuelQueuePosition = NULL, !.fuelStartTime = NULL]
         ELSE @[i] ]]

\* db.delete(flightsTable).where(eq(flightsTable.status, "DIVERTED"))
deleteDiverted(w) == [w EXCEPT !.flights = SelectSeq(@, NotDiverted)]

\* one step of POST /api/crisis/deactivate
DeactivateStep(w, l, t) ==
  CASE l.pc = "getCrisisState" ->
         [ w |-> w,
           l |-> [l EXCEPT !.existing = getCrisisState(w),
                    !.pc = IF getCrisisState(w) # NULL THEN "setCrisisState"
                           ELSE "clearFuelQueue"] ]
    [] l.pc = "setCrisisState" ->
         [ w |-> updateCrisis(w, l.existing, FALSE, t),
           l |-> [l EXCEPT !.pc = "clearFuelQueue"] ]
    [] l.pc = "clearFuelQueue" ->
         [ w |-> clearFuelQueue(w), l |-> [l EXCEPT !.pc = "getFlights"] ]
    [] l.pc = "getFlights" ->
         [ w |-> w,
           l |-> [l EXCEPT !.snap = w.flights, !.i = 1,
                    !.pc = IF SelectSeq(w.flights, HasGate) = <<>>
                           THEN "deleteDiverted" ELSE "freeGate"] ]
    [] l.pc = "freeGate" ->
         LET toFree == SelectSeq(l.snap, HasGate)
         IN [ w |-> updateGate(w, toFree[l.i].gateId,
                               [status |-> "FREE", currentFlightId |-> NULL]),
              l |-> [l EXCEPT !.i = IF l.i = Len(toFree) THEN 1 ELSE @ + 1,
                       !.pc = IF l.i = Len(toFree) THEN "deleteDiverted"
                              ELSE "freeGate"] ]
    [] l.pc = "deleteDiverted" ->
         [ w |-> deleteDiverted(w),
           l |-> [l EXCEPT !.i = 1,
                    !.pc = IF SelectSeq(l.snap, IsActiveOrScheduled) = <<>>
                           THEN "done" ELSE "restoreDomestic"] ]
    [] l.pc = "restoreDomestic" ->
         LET domesticFlights == SelectSeq(l.snap, IsActiveOrScheduled)
             f == domesticFlights[l.i]
         IN [ w |-> updateFlight(w, f.id, DomesticRestoreUpdate(f)),
              l |-> [l EXCEPT !.i = @ + 1,
                       !.pc = IF l.i = Len(domesticFlights) THEN "done"
                              ELSE "restoreDomestic"] ]

HandlerStep(w, l, t) ==
  IF l.kind = "activate" THEN ActivateStep(w, l, t) ELSE DeactivateStep(w, l, t)

\* a handler run from l to its response with no other request in between
RECURSIVE RunToDone(_, _, _)
RunToDone(w, l, t) ==
  IF l.pc = "done" THEN w
  ELSE LET r == HandlerStep(w, l, t) IN RunToDone(r.w, r.l, t)

\* POST /api/flights/import, one row
importRow(w, row, t) ==
  LET flightData == WithArrival(row, t)
      pred       == calcPrediction(flightData)
  IN updateFlight(createFlight(w, flightData), w.nextId,
       [ predictedTat |-> pred.predictedTat, penaltyRisk |-> pred.penaltyRisk,
         bottleneck |-> pred.bottleneck ])

\* ----------------------------------------------------------- derived views
\* GET /api/diverted: the fields computed from the row alone
DivertedView(w) ==
  LET diverted == getDivertedFlights(w)
  IN [ i \in 1..Len(diverted) |->
         LET f == diverted[i]
             bowserSlot == IF f.fuelQueuePosition # NULL /\ f.fuelQueuePosition # 0
                              /\ f.fuelQueuePosition <= 3
                           THEN f.fuelQueuePosition ELSE NULL
         IN [ id |-> f.id, flightNumber |-> f.flightNumber, status |-> f.status,
              fuelDuration |-> Round(f.fuelLiters, 500),
              bowserSlot |-> bowserSlot, isBeingFuelled |-> bowserSlot # NULL ] ]

\* the queue filter keeping only the flights still to come
InDomesticQueue_scheduled(f) ==
  /\ f.fuelQueuePosition # NULL
  /\ f.status = "SCHEDULED"

\* the filter of domesticQueue in GET /api/fuel-queue
InDomesticQueue(f) ==
  f.fuelQueuePosition # NULL /\ (f.status = "ACTIVE" \/ f.status = "SCHEDULED")

\* Array.prototype.sort by fuelQueuePosition (stable): insertion sort
RECURSIVE InsertByPosition(_, _)
InsertByPosition(s, f) ==
  IF s = <<>> THEN <<f>>
  ELSE IF s[Len(s)].fuelQueuePosition <= f.fuelQueuePosition THEN Append(s, f)
       ELSE Append(InsertByPosition(SubSeq(s, 1, Len(s) - 1), f), s[Len(s)])

RECURSIVE SortByPosition(_)
SortByPosition(s) ==
  IF s = <<>> THEN <<>>
  ELSE InsertByPosition(SortByPosition(SubSeq(s, 1, Len(s) - 1)), s[Len(s)])

\* the queue view charging each flight its own fuel duration per place ahead
FuelQueueView_ownDuration(w) ==
  LET domesticQueue == SortByPosition(SelectSeq(w.flights, InDomesticQueue))
  IN [ idx \in 1..Len(domesticQueue) |->
         LET f == domesticQueue[idx]
         IN [ id |-> f.id, flightNumber |-> f.flightNumber,
              fuelQueuePosition |-> f.fuelQueuePosition,
              fuelLiters |-> f.fuelLiters,
              fuelDuration |-> Round(f.fuelLiters, 500),
              isCurrentlyFuelling |-> (idx = 1),
              estimatedWaitMins |-> (idx - 1) * Round(f.fuelLiters, 500) ] ]

\* GET /api/fuel-queue: domesticQueue
FuelQueueView(w) ==
  LET domesticQueue == SortByPosition(SelectSeq(w.flights, InDomesticQueue))
  IN [ idx \in 1..Len(domesticQueue) |->
         LET f == domesticQueue[idx]
         IN [ id |-> f.id, flightNumber |-> f.flightNumber,
              fuelQueuePosition |-> f.fuelQueuePosition,
              fuelLiters |-> f.fuelLiters,
              fuelDuration |-> Round(f.fuelLiters, 500),
              isCurrentlyFuelling |-> (idx = 1),
              estimatedWaitMins |->
                SumSeq([ j \in 1..(idx - 1) |-> Round(domesticQueue[j].fuelLiters, 500) ]) ] ]

\* ------------------------------------------------------------- the system
NoResp == [op |-> "none"]

Init ==
  /\ flights = <<>> /\ gates = <<>> /\ crisis = <<>> /\ nextId = 1
  /\ now = BootTime /\ ticks = 0
  /\ rosters = 0 /\ imports = 0 /\ started = 0
  /\ procs = [p \in Procs |-> Idle]
  /\ lastOp = "none" /\ prevOp = "none"
  /\ resp = NoResp

SetDb(w) ==
  /\ flights' = w.flights /\ gates' = w.gates
  /\ crisis' = w.crisis /\ nextId' = w.nextId

Wrote(op) == lastOp' = op /\ prevOp' = lastOp

AllIdle == \A p \in Procs : procs[p] = Idle
Booted == gates # <<>>

\* registerRoutes: await seedDatabase() (at start-up and at every restart)
Seed ==
  /\ AllIdle
  /\ SetDb(seedDatabase(Db, now))
  /\ Wrote("seed") /\ resp' = NoResp
  /\ UNCHANGED << now, ticks, rosters, imports, started, procs >>

Tick ==
  /\ ticks < MaxTicks
  /\ now' = now + TickMinutes /\ ticks' = ticks + 1
  /\ UNCHANGED << flights, gates, crisis, nextId, rosters, imports, started,
                  procs, lastOp, prevOp, resp >>

\* POST /api/crisis/activate, run to its response
Activate ==
  /\ Booted /\ AllIdle
  /\ getDivertedFlights(Db) # <<>> \/ rosters < MaxRosters
  /\ SetDb(RunToDone(Db, StartOf("activate"), now))
  /\ rosters' = IF getDivertedFlights(Db) = <<>> THEN rosters + 1 ELSE rosters
  /\ Wrote("activate") /\ resp' = [op |-> "activate"]
  /\ UNCHANGED << now, ticks, imports, started, procs >>

\* POST /api/crisis/deactivate, run to its response
Deactivate ==
  /\ Booted /\ AllIdle
  /\ SetDb(RunToDone(Db, StartOf("deactivate"), now))
  /\ Wrote("deactivate") /\ resp' = [op |-> "deactivate"]
  /\ UNCHANGED << now, ticks, rosters, imports, started, procs >>

\* POST /api/flights/import with a one-row file
Import(row) ==
  /\ Booted /\ AllIdle
  /\ imports < MaxImports
  /\ SetDb(importRow(Db, row, now))
  /\ imports' = imports + 1
  /\ Wrote("import") /\ resp' = [op |-> "import"]
  /\ UNCHANGED << now, ticks, rosters, started, procs >>

\* GET /api/diverted
GetDiverted ==
  /\ Booted
  /\ resp' = [op |-> "diverted", body |-> DivertedView(Db)]
  /\ UNCHANGED << flights, gates, crisis, nextId, now, ticks, rosters, imports,
                  started, procs, lastOp, prevOp >>

\* GET /api/fuel-queue
GetFuelQueue ==
  /\ Booted
  /\ resp' = [op |-> "fuel-queue", domesticQueue |-> FuelQueueView(Db)]
  /\ UNCHANGED << flights, gates, crisis, nextId, now, ticks, rosters, imports,
                  started, procs, lastOp, prevOp >>

Next ==
  \/ Seed
  \/ Tick
  \/ Activate
  \/ Deactivate
  \/ \E row \in ImportRows : Import(row)
  \/ GetDiverted
  \/ GetFuelQueue

\* every request runs to completion before the next one starts
Spec == Init /\ [][Next]_vars


\* ------------------------------------------- requests interleaved at awaits
FreeProc == CHOOSE p \in Procs : procs[p] = Idle /\ \A q \in Procs : procs[q] = Idle => p <= q

\* a request arrives: its handler starts on a free connection
StartActivate ==
  /\ Booted /\ started < MaxStarted
  /\ \E p \in Procs : procs[p] = Idle
  /\ procs' = [procs EXCEPT ![FreeProc] = StartOf("activate")]
  /\ started' = started + 1
  /\ UNCHANGED << flights, gates, crisis, nextId, now, ticks, rosters, imports,
                  lastOp, prevOp, resp >>

StartDeactivate ==
  /\ Booted /\ started < MaxStarted
  /\ \E p \in Procs : procs[p] = Idle
  /\ procs' = [procs EXCEPT ![FreeProc] = StartOf("deactivate")]
  /\ started' = started + 1
  /\ UNCHANGED << flights, gates, crisis, nextId, now, ticks, rosters, imports,
                  lastOp, prevOp, resp >>

\* the handler on connection p runs up to its next await, or to its response
StepProc(p) ==
  /\ procs[p] # Idle
  /\ LET r == HandlerStep(Db, procs[p], now)
     IN /\ SetDb(r.w)
        /\ IF r.l.pc = "done"
           THEN /\ procs' = [procs EXCEPT ![p] = Idle]
                /\ Wrote(procs[p].kind)
                /\ resp' = [op |-> procs[p].kind]
           ELSE /\ procs' = [procs EXCEPT ![p] = r.l]
                /\ UNCHANGED << lastOp, prevOp, resp >>
  /\ rosters' = IF procs[p].kind = "activate" /\ procs[p].pc = "selectGates"
                THEN rosters + 1 ELSE rosters
  /\ UNCHANGED << now, ticks, imports, started >>

\* start-up: registerRoutes awaits seedDatabase() before any route exists
Boot == ~Booted /\ Seed

NextConc ==
  \/ Boot
  \/ StartActivate
  \/ StartDeactivate
  \/ \E p \in Procs : StepProc(p)

\* requests interleave at every await of the registry
SpecConc == Init /\ [][NextConc]_vars

\* ------------------------------------------------------------ estimator API
\* the bodies a client sends to POST /api/predict; predictRequestSchema
\* accepts any string for aircraftType and any number for the quantities
AircraftTypes == {"Narrow", "Wide", "Cargo"}
PenaltyRates  == {5400, 15000}

\* <<fuelLiters, bagsCount, priorityBags, mealsQty, specialMeals>>: the
\* wide-body scenario, every order and every tie of the three durations
Quantities ==
  { << 15200, 245, 22, 248, 14 >>,   \* 39, 30, 21
    << 7500,  100, 0,  0,   14 >>,   \* 15, 15, 1
    << 7500,  0,   0,  188, 0  >>,   \* 0, 15, 15
    << 0,     100, 0,  188, 0  >>,   \* 15, 0, 15
    << 7500,  100, 0,  188, 0  >>,   \* 15, 15, 15
    << 15000, 100, 0,  188, 0  >>,   \* 15, 30, 15
    << 0,     0,   0,  375, 0  >>,   \* 0, 0, 30
    << 0,     200, 22, 0,   0  >>,   \* 32, 0, 0
    << 15000, 200, 0,  375, 14 >>,   \* 30, 30, 31
    << 0,     0,   0,  0,   0  >> }

PredictRequests ==
  { [ aircraftType |-> a, fuelLiters |-> q[1], bagsCount |-> q[2],
      priorityBags |-> q[3], mealsQty |-> q[4], specialMeals |-> q[5],
      cateringRequired |-> c, safetyCheck |-> sc,
      fuelCrisisActive |-> m, penaltyRatePerMin |-> r ] :
      a \in AircraftTypes, q \in Quantities, c \in BOOLEAN, sc \in BOOLEAN,
      m \in BOOLEAN, r \in PenaltyRates }

\* POST /api/predict: parse the body, calcPrediction(input), 200 with the result
Predict(req) ==
  /\ Booted
  /\ resp' = [op |-> "predict", status |-> 200, input |-> req,
              result |-> calcPrediction(req)]
  /\ UNCHANGED << flights, gates, crisis, nextId, now, ticks, rosters, imports,
                  started, procs, lastOp, prevOp >>

NextEst ==
  \/ Seed
  \/ \E req \in PredictRequests : Predict(req)

\* the estimator API on the seeded server
SpecEst == Init /\ [][NextEst]_vars

\* ------------------------------------------------- crisis and penalty views
\* offsets of the server's time zone from UTC, minutes east
ZoneOffsets == {0, 330}

\* new Date(f.arrivalTime + "Z").getTime(): the Date is printed as a wall
\* clock of the server's zone and read back as UTC
ArrivalMs(arrivalTime, z) == arrivalTime + z

\* state ?? { fuelCrisisActive: false, bowserCount: 4, manualPumpSpeed: 500 }
CrisisView(w) ==
  IF w.crisis = <<>>
  THEN [ fuelCrisisActive |-> FALSE, bowserCount |-> 4, manualPumpSpeed |-> 500 ]
  ELSE w.crisis[1]

\* GET /api/crisis: the registry after the handler, and its response
getCrisis(w) == [ w |-> w, body |-> CrisisView(w) ]

HasPenaltyRisk(f) ==
  (f.status = "ACTIVE" \/ f.status = "SCHEDULED") /\ f.penaltyRisk > 0

\* the summary that settles the accrued penalty into each diverted flight
penaltySummary_settle(w, t, z) ==
  LET international == SelectSeq(w.flights, IsDiverted)
      domestic      == SelectSeq(w.flights, HasPenaltyRisk)
      Accrued(f)    == Max(0, t - ArrivalMs(f.arrivalTime, z)) * f.penaltyRatePerMin
      intPenalty == SumSeq([ i \in 1..Len(international) |-> Accrued(international[i]) ])
      domPenalty == SumSeq([ i \in 1..Len(domestic) |-> domestic[i].penaltyRisk ])
  IN [ w |-> [w EXCEPT !.flights =
                [ i \in 1..Len(w.flights) |->
                    IF IsDiverted(w.flights[i])
                    THEN [w.flights[i] EXCEPT !.penaltyRisk = Accrued(w.flights[i])]
                    ELSE w.flights[i] ]],
       body |-> [ international |-> [ count |-> Len(international),
                                      totalPenalty |-> intPenalty, ratePerMin |-> 15000 ],
                  domestic |-> [ count |-> Len(domestic),
                                 totalPenalty |-> domPenalty, ratePerMin |-> 5400 ],
                  grandTotal |-> intPenalty + domPenalty ] ]

\* GET /api/crisis/penalty-summary at clock t on a server of zone z: the
\* registry after the handler, and its response
penaltySummary(w, t, z) ==
  LET international == SelectSeq(w.flights, IsDiverted)
      domestic      == SelectSeq(w.flights, HasPenaltyRisk)
      Accrued(f)    == Max(0, t - ArrivalMs(f.arrivalTime, z)) * f.penaltyRatePerMin
      intPenalty == SumSeq([ i \in 1..Len(international) |-> Accrued(international[i]) ])
      domPenalty == SumSeq([ i \in 1..Len(domestic) |-> domestic[i].penaltyRisk ])
  IN [ w |-> w,
       body |-> [ international |-> [ count |-> Len(international),
                                      totalPenalty |-> intPenalty, ratePerMin |-> 15000 ],
                  domestic |-> [ count |-> Len(domestic),
                                 totalPenalty |-> domPenalty, ratePerMin |-> 5400 ],
                  grandTotal |-> intPenalty + domPenalty ] ]

\* GET /api/crisis
GetCrisis ==
  /\ Booted
  /\ SetDb(getCrisis(Db).w)
  /\ resp' = [op |-> "crisis", body |-> getCrisis(Db).body]
  /\ UNCHANGED << now, ticks, rosters, imports, started, procs, lastOp, prevOp >>

\* GET /api/crisis/penalty-summary
GetPenaltySummary(z) ==
  /\ Booted
  /\ SetDb(penaltySummary(Db, now, z).w)
  /\ resp' = [op |-> "penalty-summary", body |-> penaltySummary(Db, now, z).body]
  /\ UNCHANGED << now, ticks, rosters, imports, started, procs, lastOp, prevOp >>

\* ---------------------------------------------------------------- simulator
\* trials of one POST /api/montecarlo (const simulations = 1000 in the source)
simulations == 5

\* the outcomes one trial is drawn from: its value Math.round(simBaggage +
\* simFuel + simCatering + simSafety + 10), and whether simBaggage exceeded
\* simFuel and simCatering in it
TrialOutcomes ==
  { [tat |-> 0 - 3, baggage |-> FALSE],
    [tat |-> 47,    baggage |-> TRUE],
    [tat |-> 48,    baggage |-> FALSE] }

\* the bodies a client sends to POST /api/montecarlo: the quantities shape
\* only the distribution the trials are drawn from
SimRequests == { [aircraftType |-> a] : a \in {"Narrow", "Wide"} }

\* results.sort((a, b) => a - b)
RECURSIVE InsertAscending(_, _)
InsertAscending(s, r) ==
  IF s = <<>> THEN <<r>>
  ELSE IF s[Len(s)] <= r THEN Append(s, r)
       ELSE Append(InsertAscending(SubSeq(s, 1, Len(s) - 1), r), s[Len(s)])

RECURSIVE SortAscending(_)
SortAscending(s) ==
  IF s = <<>> THEN <<>>
  ELSE InsertAscending(SortAscending(SubSeq(s, 1, Len(s) - 1)), s[Len(s)])

\* the percentile read one place below
Percentile_below(results, pct) == results[Max(1, (simulations * pct) \div 100)]

\* results[Math.floor(simulations * f)], f = pct / 100, of the 0-based array
Percentile(results, pct) == results[(simulations * pct) \div 100 + 1]

\* the bin taken by rounding to the nearest even minute
Bin_round(r) == ((r + 1) \div 2) * 2

\* Math.floor(r / 2) * 2
Bin(r) == (r \div 2) * 2

\* histogramMap.set(bin, (histogramMap.get(bin) || 0) + 1) on a Map, kept as
\* its entries in insertion order
MapIncrement(m, bin) ==
  IF \E i \in 1..Len(m) : m[i].bin = bin
  THEN [ i \in 1..Len(m) |->
           IF m[i].bin = bin THEN [m[i] EXCEPT !.count = @ + 1] ELSE m[i] ]
  ELSE Append(m, [bin |-> bin, count |-> 1])

\* results.forEach(...) over the sorted results
RECURSIVE histogramMap(_)
histogramMap(results) ==
  IF results = <<>> THEN <<>>
  ELSE MapIncrement(histogramMap(SubSeq(results, 1, Len(results) - 1)),
                    Bin(results[Len(results)]))

\* .sort((a, b) => a.bin - b.bin)
RECURSIVE InsertByBin(_, _)
InsertByBin(s, e) ==
  IF s = <<>> THEN <<e>>
  ELSE IF s[Len(s)].bin <= e.bin THEN Append(s, e)
       ELSE Append(InsertByBin(SubSeq(s, 1, Len(s) - 1), e), s[Len(s)])

RECURSIVE SortByBin(_)
SortByBin(s) ==
  IF s = <<>> THEN <<>>
  ELSE InsertByBin(SortByBin(SubSeq(s, 1, Len(s) - 1)), s[Len(s)])

\* the response of POST /api/montecarlo for the trials drawn, in the order
\* drawn
monteCarlo(input, drawn) ==
  LET targetTat == IF input.aircraftType = "Wide" THEN 60 ELSE 35
      results   == SortAscending([ i \in 1..Len(drawn) |-> drawn[i].tat ])
      baggageBottleneckCount ==
        Cardinality({ i \in 1..Len(drawn) : drawn[i].baggage })
      p50 == Percentile(results, 50)
      p75 == Percentile(results, 75)
      p90 == Percentile(results, 90)
  IN [ p50 |-> p50, p75 |-> p75, p90 |-> p90,
       p50Penalty |-> Max(0, p50 - targetTat) * 5400,
       p75Penalty |-> Max(0, p75 - targetTat) * 5400,
       p90Penalty |-> Max(0, p90 - targetTat) * 5400,
       bottleneckConsistency |-> Round(100 * baggageBottleneckCount, simulations),
       histogramData |-> SortByBin(histogramMap(results)) ]

\* POST /api/montecarlo
Simulate(req, drawn) ==
  /\ Booted
  /\ resp' = [op |-> "montecarlo", status |-> 200, input |-> req, drawn |-> drawn,
              result |-> monteCarlo(req, drawn)]
  /\ UNCHANGED << flights, gates, crisis, nextId, now, ticks, rosters, imports,
                  started, procs, lastOp, prevOp >>

NextSim ==
  \/ Boot
  \/ \E req \in SimRequests, drawn \in [1..simulations -> TrialOutcomes] :
        Simulate(req, drawn)

\* the simulator API on the seeded server
SpecSim == Init /\ [][NextSim]_vars

\* ------------------------------------------------ the read-only operations
\* the predict bodies sent between crisis operations: the wide-body scenario
ReadPredictRequests ==
  { req \in PredictRequests :
      /\ req.fuelLiters = 15200 /\ req.cateringRequired /\ req.safetyCheck
      /\ ~req.fuelCrisisActive /\ req.penaltyRatePerMin = 5400 }

\* the trials drawn for them: every trial with the same outcome
ReadDraws == { [ i \in 1..simulations |-> o ] : o \in TrialOutcomes }

NextRead ==
  \/ Boot
  \/ Tick
  \/ Activate
  \/ Deactivate
  \/ GetCrisis
  \/ GetDiverted
  \/ GetFuelQueue
  \/ \E z \in ZoneOffsets : GetPenaltySummary(z)
  \/ \E req \in ReadPredictRequests : Predict(req)
  \/ \E req \in SimRequests, drawn \in ReadDraws : Simulate(req, drawn)

\* the crisis engine with every derived view, predict and simulate polled
\* between its operations
SpecRead == Init /\ [][NextRead]_vars

\* ------------------------------------------- a registry operation rejects
\* registry operations of an activate that complete before one rejects
MaxAbortStep == 8

\* the handler run from l for k registry operations, or to its response
RECURSIVE RunSteps(_, _, _, _)
RunSteps(w, l, t, k) ==
  IF k = 0 \/ l.pc = "done" THEN [ w |-> w, l |-> l ]
  ELSE LET r == HandlerStep(w, l, t) IN RunSteps(r.w, r.l, t, k - 1)

\* POST /api/crisis/activate whose registry operation number k + 1 rejects:
\* the catch block answers 500 and writes nothing
ActivateAbort(k) ==
  /\ Booted /\ AllIdle
  /\ getDivertedFlights(Db) # <<>> \/ rosters < MaxRosters
  /\ LET r == RunSteps(Db, StartOf("activate"), now, k)
     IN /\ r.l.pc # "done"
        /\ SetDb(r.w)
        /\ rosters' = IF r.l.gsnap # <<>> THEN rosters + 1 ELSE rosters
  /\ Wrote("activate-500") /\ resp' = [op |-> "activate", status |-> 500]
  /\ UNCHANGED << now, ticks, imports, started, procs >>

NextFail ==
  \/ Boot
  \/ Tick
  \/ Activate
  \/ Deactivate
  \/ \E k \in 0..MaxAbortStep : ActivateAbort(k)

\* one request at a time, the registry failing under an activate
SpecFail == Init /\ [][NextFail]_vars

\* ------------------------------------------------ overlapping activations
\* a deactivate request served while no handler is running
ServeDeactivate ==
  /\ Booted /\ AllIdle /\ started < MaxStarted
  /\ SetDb(RunToDone(Db, StartOf("deactivate"), now))
  /\ started' = started + 1
  /\ Wrote("deactivate") /\ resp' = [op |-> "deactivate"]
  /\ UNCHANGED << now, ticks, rosters, imports, procs >>

\* two activate requests are in flight at once, one on each connection
StartBoth ==
  /\ Booted /\ AllIdle /\ started + 2 <= MaxStarted
  /\ procs' = [p \in Procs |-> StartOf("activate")]
  /\ started' = started + 2
  /\ UNCHANGED << flights, gates, crisis, nextId, now, ticks, rosters, imports,
                  lastOp, prevOp, resp >>

NextRace ==
  \/ Boot
  \/ ServeDeactivate
  \/ StartBoth
  \/ \E p \in Procs : StepProc(p)

\* two activate requests interleave at every await of the registry; a
\* deactivate is served between pairs, when no handler is running
SpecRace == Init /\ [][NextRace]_vars

\* ------------------------------------------------ the views with their clock
\* the comparator of the diverted view's sort: landed flights first, then by
\* new Date(a.arrivalTime)
DivertedBefore(a, b) ==
  IF a.hasLanded /\ ~b.hasLanded THEN TRUE
  ELSE IF ~a.hasLanded /\ b.hasLanded THEN FALSE
  ELSE a.arrivalTime < b.arrivalTime

\* Array.prototype.sort with that comparator (stable): insertion sort
RECURSIVE InsertDiverted(_, _)
InsertDiverted(s, e) ==
  IF s = <<>> THEN <<e>>
  ELSE IF ~DivertedBefore(e, s[Len(s)]) THEN Append(s, e)
       ELSE Append(InsertDiverted(SubSeq(s, 1, Len(s) - 1), e), s[Len(s)])

RECURSIVE SortDiverted(_)
SortDiverted(s) ==
  IF s = <<>> THEN <<>>
  ELSE InsertDiverted(SortDiverted(SubSeq(s, 1, Len(s) - 1)), s[Len(s)])

\* GET /api/diverted at clock t on a server of zone z: every row with the
\* fields computed from the clock, in the order sent
DivertedLive(w, t, z) ==
  LET diverted == getDivertedFlights(w)
      base     == DivertedView(w)
      enriched ==
        [ i \in 1..Len(diverted) |->
            LET f == diverted[i]
                arrivalMs  == ArrivalMs(f.arrivalTime, z)
                hasLanded  == arrivalMs <= t
                elapsedMin == IF hasLanded THEN Max(0, t - arrivalMs) ELSE 0
            IN base[i] @@
               [ arrivalTime |-> f.arrivalTime, gateId |-> f.gateId,
                 fuelStartTime |-> f.fuelStartTime,
                 penaltyRatePerMin |-> f.penaltyRatePerMin,
                 hasLanded |-> hasLanded, elapsedMin |-> elapsedMin,
                 minsUntilArrival |-> IF hasLanded THEN 0 ELSE arrivalMs - t,
                 penaltyAccrued |-> elapsedMin * f.penaltyRatePerMin ] ]
  IN SortDiverted(enriched)

\* GET /api/fuel-queue at clock t on a server of zone z: every row of the
\* domestic queue with its fuelling progress
FuelQueueLive(w, t, z) ==
  LET domesticQueue == SortByPosition(SelectSeq(w.flights, InDomesticQueue))
      base          == FuelQueueView(w)
  IN [ idx \in 1..Len(domesticQueue) |->
         LET f == domesticQueue[idx]
             fuelDuration == Round(f.fuelLiters, 500)
             fuelStartMs  == IF f.fuelStartTime # NULL
                             THEN ArrivalMs(f.fuelStartTime, z) ELSE NULL
             fuelElapsed  == IF fuelStartMs # NULL /\ fuelStartMs # 0
                             THEN Max(0, t - fuelStartMs) ELSE 0
         IN base[idx] @@
            [ arrivalTime |-> f.arrivalTime, fuelStartTime |-> f.fuelStartTime,
              fuelElapsed |-> fuelElapsed,
              fuelRemaining |-> Max(0, fuelDuration - fuelElapsed),
              fuelProgress |-> IF fuelDuration > 0
                               THEN Min(100, Round(100 * fuelElapsed, fuelDuration))
                               ELSE 0 ] ]

\* GET /api/diverted, the whole response
PollDiverted(z) ==
  /\ Booted
  /\ resp' = [op |-> "diverted-live", at |-> now, body |-> DivertedLive(Db, now, z)]
  /\ UNCHANGED << flights, gates, crisis, nextId, now, ticks, rosters, imports,
                  started, procs, lastOp, prevOp >>

\* GET /api/fuel-queue, the whole response
PollFuelQueue(z) ==
  /\ Booted
  /\ resp' = [op |-> "fuel-queue-live", at |-> now, crisis |-> CrisisView(Db),
              domesticQueue |-> FuelQueueLive(Db, now, z),
              domesticQueueLength |-> Len(FuelQueueLive(Db, now, z))]
  /\ UNCHANGED << flights, gates, crisis, nextId, now, ticks, rosters, imports,
                  started, procs, lastOp, prevOp >>

\* the waits between two requests, minutes
Waits == {TickMinutes, 2 * TickMinutes}

\* the clock advances by one of the waits
Advance(d) ==
  /\ ticks < MaxTicks
  /\ now' = now + d /\ ticks' = ticks + 1
  /\ UNCHANGED << flights, gates, crisis, nextId, rosters, imports, started,
                  procs, lastOp, prevOp, resp >>

NextLive ==
  \/ Boot
  \/ \E d \in Waits : Advance(d)
  \/ Activate
  \/ Deactivate
  \/ \E z \in ZoneOffsets : PollDiverted(z)
  \/ \E z \in ZoneOffsets : PollFuelQueue(z)

\* the crisis engine polled through its two live views while the clock runs
SpecLive == Init /\ [][NextLive]_vars

\* ------------------------------------------------------------------ claims
\* C1: gate mutual exclusion.  No two distinct gates carry the same non-null
\* currentFlightId, and no two flights reference the same gate through
\* gateId, in every state reachable by seeding, activate and deactivate,
\* their interleavings at the awaits of the registry included.
C1_GateMutualExclusion ==
  /\ \A i, j \in 1..Len(gates) :
       (i # j /\ gates[i].currentFlightId # NULL)
         => gates[i].currentFlightId # gates[j].currentFlightId
  /\ \A i, j \in 1..Len(flights) :
       (i # j /\ flights[i].gateId # NULL)
         => flights[i].gateId # flights[j].gateId


\* C2: crisis idempotence of the roster.  An activate that follows an
\* activate leaves the DIVERTED flights exactly as they were and creates no
\* flight.
C2_ActivateTwiceSameRoster ==
  [][ (lastOp = "activate" /\ Activate)
        => /\ SelectSeq(flights', IsDiverted) = SelectSeq(flights, IsDiverted)
           /\ Len(flights') = Len(flights)
           /\ nextId' = nextId ]_vars

\* an activate has followed the activate that synthesized the roster
C2_Witness ==
  /\ lastOp = "activate" /\ prevOp = "activate"
  /\ rosters >= 1
  /\ Len(SelectSeq(flights, IsDiverted)) = Len(divertedFlights)

\* C3: crisis reversibility.  After activate followed by deactivate no
\* DIVERTED flight exists, and every ACTIVE or SCHEDULED domestic flight
\* stores the predictedTat, penaltyRisk and bottleneck the normal-mode
\* estimator gives for its parameters.
C3_DeactivateRestores ==
  (lastOp = "deactivate" /\ prevOp = "activate")
    => /\ \A i \in 1..Len(flights) : flights[i].status # "DIVERTED"
       /\ \A i \in 1..Len(flights) :
            IsDomestic(flights[i])
              => LET f == flights[i]
                     tat == Round(15 * f.bagsCount + 10 * f.priorityBags, 100)
                            + Round(2 * f.fuelLiters, 1000)
                            + (IF f.cateringRequired
                               THEN Round(8 * f.mealsQty + 10 * f.specialMeals, 100)
                               ELSE 0)
                            + (IF f.safetyCheck THEN 15 ELSE 0) + 10
                 IN /\ f.predictedTat = tat
                    /\ f.predictedTat = calcPrediction(f).predictedTat
                    /\ f.penaltyRisk = calcPrediction(f).penaltyRisk
                    /\ f.bottleneck = calcPrediction(f).bottleneck

\* a deactivate has followed an activate, and a domestic flight whose
\* bottleneck is not the FUEL the crisis had stored is back in normal mode
C3_Witness ==
  /\ lastOp = "deactivate" /\ prevOp = "activate"
  /\ crisis # <<>> /\ ~crisis[1].fuelCrisisActive
  /\ \E i \in 1..Len(flights) :
       IsDomestic(flights[i]) /\ flights[i].bottleneck = "BAGGAGE"

\* C4: bowser exclusivity.  No two DIVERTED flights hold the same bowser slot
\* 1..3, the diverted view reports a slot only in 1..3, only for DIVERTED
\* flights and never the same slot twice, and the fuel-queue view reports at
\* most one domestic flight as fuelling on bowser 4, the head of the queue.
C4_BowserExclusivity ==
  /\ \A i, j \in 1..Len(flights) :
       ( /\ i # j
         /\ flights[i].status = "DIVERTED" /\ flights[j].status = "DIVERTED"
         /\ flights[i].fuelQueuePosition \in 1..3 )
         => flights[i].fuelQueuePosition # flights[j].fuelQueuePosition
  /\ resp.op = "diverted"
       => /\ \A i \in 1..Len(resp.body) :
               /\ resp.body[i].status = "DIVERTED"
               /\ resp.body[i].bowserSlot \in {NULL, 1, 2, 3}
               /\ resp.body[i].isBeingFuelled <=> resp.body[i].bowserSlot # NULL
          /\ \A i, j \in 1..Len(resp.body) :
               (i # j /\ resp.body[i].bowserSlot # NULL)
                 => resp.body[i].bowserSlot # resp.body[j].bowserSlot
  /\ resp.op = "fuel-queue"
       => \A i \in 1..Len(resp.domesticQueue) :
            /\ resp.domesticQueue[i].isCurrentlyFuelling <=> i = 1
            /\ resp.domesticQueue[1].fuelQueuePosition
                 <= resp.domesticQueue[i].fuelQueuePosition

\* the diverted view shows the three bowsers of a synthesized roster taken,
\* with domestic flights queued for bowser 4
C4_Witness ==
  /\ resp.op = "diverted"
  /\ rosters >= 1
  /\ {resp.body[i].bowserSlot : i \in 1..Len(resp.body)} = {NULL, 1, 2, 3}
  /\ Len(SelectSeq(flights, InDomesticQueue)) >= 2

\* the queue of the example: fuel durations 10, 14, 8 in queue order
ExampleQueueDb ==
  [ EmptyDb EXCEPT !.flights =
      << [ NewFlight(1, WithArrival(
             P("EX-1", "Narrow", 0, 5000, 0, 0, 0, 0, TRUE, TRUE, 5400, "ACTIVE"), 0))
           EXCEPT !.fuelQueuePosition = 1 ],
         [ NewFlight(2, WithArrival(
             P("EX-2", "Narrow", 0, 4000, 0, 0, 0, 0, TRUE, TRUE, 5400, "SCHEDULED"), 0))
           EXCEPT !.fuelQueuePosition = 3 ],
         [ NewFlight(3, WithArrival(
             P("EX-3", "Narrow", 0, 7000, 0, 0, 0, 0, TRUE, TRUE, 5400, "SCHEDULED"), 0))
           EXCEPT !.fuelQueuePosition = 2 ] >> ]

\* C5: domestic queue view.  Every flight of the view has estimatedWaitMins
\* equal to the sum of round(fuelLiters / 500) over the flights ahead of it,
\* the view being in queue-position order; the head waits 0, and with fuel
\* durations 10, 14, 8 in queue order the third flight waits 24.
C5_QueueWait ==
  /\ resp.op = "fuel-queue"
       => LET q == resp.domesticQueue
          IN /\ \A i \in 1..Len(q) :
                  /\ q[i].estimatedWaitMins =
                       SumSeq([ j \in 1..(i - 1) |-> (2 * q[j].fuelLiters + 500) \div 1000 ])
                  /\ \A j \in 1..(i - 1) : q[j].fuelQueuePosition <= q[i].fuelQueuePosition
             /\ {q[i].id : i \in 1..Len(q)} =
                  {flights[k].id : k \in {n \in 1..Len(flights) : InDomesticQueue(flights[n])}}
             /\ Len(q) >= 1 => q[1].estimatedWaitMins = 0
  /\ LET e == FuelQueueView(ExampleQueueDb)
     IN /\ << e[1].fuelDuration, e[2].fuelDuration, e[3].fuelDuration >> = << 10, 14, 8 >>
        /\ e[1].estimatedWaitMins = 0
        /\ e[3].estimatedWaitMins = 24

\* the view of a crisis queue: the third flight waits for the two ahead of it
C5_Witness ==
  /\ resp.op = "fuel-queue"
  /\ Len(resp.domesticQueue) >= 3
  /\ resp.domesticQueue[3].estimatedWaitMins =
       resp.domesticQueue[1].fuelDuration + resp.domesticQueue[2].fuelDuration
  /\ resp.domesticQueue[3].estimatedWaitMins > resp.domesticQueue[2].estimatedWaitMins
  /\ resp.domesticQueue[2].estimatedWaitMins > 0

\* C6: on activation the i-th domestic flight (from 0, in table order among
\* the ACTIVE/SCHEDULED flights of rate 5400) gets predictedTat = baggage +
\* manual fuel + catering + safety + 10 + W, W the sum of the manual fuel
\* durations of the domestic flights ahead of it, and the penaltyRisk of that
\* predictedTat.
C6_SequentialQueueWait ==
  lastOp = "activate"
    => LET dom == SelectSeq(flights, IsDomestic)
       IN \A i \in 1..Len(dom) :
            LET f == dom[i]
                W == SumSeq([ j \in 1..(i - 1) |-> ManualFuelDuration(dom[j]) ])
                tat == BaggageDuration(f) + ManualFuelDuration(f) + CateringDuration(f)
                       + SafetyCheckDuration(f) + 10 + W
            IN /\ f.predictedTat = tat
               /\ f.penaltyRisk = Max(0, tat - TargetTat(f)) * 5400

\* C7: every predict response has predictedTat = baggageDuration +
\* fuelDuration + cateringDuration + safetyCheckDuration + 10, with
\* cateringDuration 0 when catering is not required and safetyCheckDuration
\* 15 when the safety check is required, else 0; the wide-body scenario
\* gives 39 + 30 + 21 + 15 + 10 = 115.
C7_TatIsSumPlusPad ==
  resp.op = "predict"
    => LET r == resp.result
           q == resp.input
       IN /\ r.predictedTat = r.baggageDuration + r.fuelDuration
                              + r.cateringDuration + r.safetyCheckDuration + 10
          /\ ~q.cateringRequired => r.cateringDuration = 0
          /\ r.safetyCheckDuration = IF q.safetyCheck THEN 15 ELSE 0
          /\ ( /\ q.aircraftType = "Wide" /\ q.fuelLiters = 15200
               /\ q.bagsCount = 245 /\ q.priorityBags = 22
               /\ q.mealsQty = 248 /\ q.specialMeals = 14
               /\ q.cateringRequired /\ q.safetyCheck )
               => /\ << r.baggageDuration, r.fuelDuration, r.cateringDuration,
                        r.safetyCheckDuration >> = << 39, 30, 21, 15 >>
                  /\ r.predictedTat = 115

\* the wide-body scenario has been predicted
C7_Witness ==
  /\ resp.op = "predict"
  /\ resp.input.aircraftType = "Wide" /\ resp.input.fuelLiters = 15200
  /\ resp.input.bagsCount = 245 /\ resp.input.priorityBags = 22
  /\ resp.input.mealsQty = 248 /\ resp.input.specialMeals = 14
  /\ resp.input.cateringRequired /\ resp.input.safetyCheck
  /\ resp.result.predictedTat = 115

\* C8: every predict response has penaltyRisk = max(0, predictedTat -
\* targetTat) * penaltyRatePerMin, targetTat 60 for Wide and 35 for Narrow,
\* penaltyRatePerMin the rate carried with the request.
C8_PenaltyUsesRequestRate ==
  (resp.op = "predict" /\ resp.input.aircraftType \in {"Wide", "Narrow"})
    => LET targetTat == IF resp.input.aircraftType = "Wide" THEN 60 ELSE 35
       IN resp.result.penaltyRisk =
            Max(0, resp.result.predictedTat - targetTat) * resp.input.penaltyRatePerMin

\* C9: bottleneck tie-break.  The estimator reports the candidate of maximal
\* duration among baggage, fuel, catering, the earliest in that order among
\* equal maxima.
C9_BottleneckTieBreak ==
  resp.op = "predict"
    => LET b == resp.result.baggageDuration
           f == resp.result.fuelDuration
           c == resp.result.cateringDuration
       IN /\ resp.result.bottleneck =
               IF b >= f /\ b >= c THEN "BAGGAGE"
               ELSE IF f >= c THEN "FUEL" ELSE "CATERING"
          /\ (b = f /\ f > c) => resp.result.bottleneck = "BAGGAGE"
          /\ (f = c /\ c > b) => resp.result.bottleneck = "FUEL"

\* baggage and fuel tie above catering, and the response says BAGGAGE
C9_Witness ==
  /\ resp.op = "predict"
  /\ resp.result.baggageDuration = resp.result.fuelDuration
  /\ resp.result.fuelDuration > resp.result.cateringDuration
  /\ resp.result.cateringDuration > 0
  /\ resp.result.bottleneck = "BAGGAGE"

\* C10: fuel-rate mode.  A predict response has fuelDuration =
\* round(fuelLiters * 0.002) for a request under hydrant service and
\* fuelDuration = round(fuelLiters / 500) for a request with
\* fuelCrisisActive = true.
C10_FuelRateMode ==
  resp.op = "predict"
    => resp.result.fuelDuration =
         IF resp.input.fuelCrisisActive
         THEN (2 * resp.input.fuelLiters + 500) \div 1000
         ELSE (2 * (2 * resp.input.fuelLiters) + 1000) \div 2000

\* a manual-fuelling request for 15200 litres has been answered with 30
C10_Witness ==
  /\ resp.op = "predict"
  /\ resp.input.fuelCrisisActive
  /\ resp.input.fuelLiters = 15200
  /\ resp.result.fuelDuration = 30

\* C11: activate is idempotent while the crisis is active.  An activate that
\* follows an activate, the crisis flag being on, leaves the crisis record
\* (flag and recorded activation time), every flight and every gate as the
\* first activate left them.
C11_ActivateIdempotent ==
  [][ ( /\ lastOp = "activate"
        /\ crisis # <<>> /\ crisis[1].fuelCrisisActive
        /\ Activate )
        => /\ crisis' = crisis
           /\ flights' = flights
           /\ gates' = gates ]_vars

\* C12: deactivate before any activation is a no-op.  With no crisis record
\* in the registry a deactivate leaves every flight, every gate and the
\* absent crisis state unchanged.
C12_DeactivateNeverActivatedNoOp ==
  [][ (crisis = <<>> /\ Deactivate)
        => /\ flights' = flights
           /\ gates' = gates
           /\ crisis' = crisis ]_vars

\* C13: before the first activation (no crisis record exists yet) every
\* crisis derived view returns the inactive result: the crisis state reads
\* inactive, the domestic fuel queue is empty, and the penalty summary's
\* international total, domestic total and grand total are zero.
C13_InactiveViewsBeforeActivation ==
  crisis = <<>>
    => /\ resp.op = "crisis" => ~resp.body.fuelCrisisActive
       /\ resp.op = "fuel-queue" => resp.domesticQueue = <<>>
       /\ resp.op = "penalty-summary"
            => /\ resp.body.international.totalPenalty = 0
               /\ resp.body.domestic.totalPenalty = 0
               /\ resp.body.grandTotal = 0

\* C16: the derived views (diverted flights, domestic fuel queue, penalty
\* summary, crisis state) and the predict and simulate operations are
\* read-only: each of them leaves every flight, every gate and the crisis
\* state as they were.
C16_ViewsReadOnly ==
  [][ ( \/ resp'.op = "crisis" /\ GetCrisis
        \/ resp'.op = "diverted" /\ GetDiverted
        \/ resp'.op = "fuel-queue" /\ GetFuelQueue
        \/ resp'.op = "penalty-summary" /\ \E z \in ZoneOffsets : GetPenaltySummary(z)
        \/ resp'.op = "predict" /\ \E req \in ReadPredictRequests : Predict(req)
        \/ /\ resp'.op = "montecarlo"
           /\ \E req \in SimRequests, drawn \in ReadDraws : Simulate(req, drawn) )
        => UNCHANGED << flights, gates, crisis, nextId >> ]_vars

\* the penalty summary has been polled during a crisis and reported accrued
\* international penalties next to the domestic penalty risk
C16_Witness ==
  /\ resp.op = "penalty-summary"
  /\ crisis # <<>> /\ crisis[1].fuelCrisisActive
  /\ resp.body.international.count > 0
  /\ resp.body.international.totalPenalty > 0
  /\ resp.body.domestic.totalPenalty > 0

\* C14: after a deactivate that runs to completion the crisis flag is off,
\* no DIVERTED flight exists, every gate that a diverted flight occupied is
\* FREE with no current flight, and every ACTIVE or SCHEDULED flight has a
\* null fuel-queue position.
C14_DeactivateClearsCrisis ==
  [][ (resp'.op = "deactivate" /\ Deactivate)
        => /\ \A c \in 1..Len(crisis') : ~crisis'[c].fuelCrisisActive
           /\ \A i \in 1..Len(flights') : flights'[i].status # "DIVERTED"
           /\ \A g \in 1..Len(gates) :
                (\E i \in 1..Len(flights) :
                    /\ flights[i].status = "DIVERTED"
                    /\ gates[g].currentFlightId = flights[i].id)
                  => /\ gates'[g].status = "FREE"
                     /\ gates'[g].currentFlightId = NULL
           /\ \A i \in 1..Len(flights') :
                (flights'[i].status = "ACTIVE" \/ flights'[i].status = "SCHEDULED")
                  => flights'[i].fuelQueuePosition = NULL ]_vars

\* a crisis whose roster was synthesized has been deactivated: G5, G6, G7
\* are FREE again and the domestic queue is gone
C14_Witness ==
  /\ lastOp = "deactivate" /\ prevOp = "activate"
  /\ rosters >= 1
  /\ \A g \in 5..7 : gates[g].status = "FREE" /\ gates[g].currentFlightId = NULL
  /\ \A i \in 1..Len(flights) :
       flights[i].status # "DIVERTED" /\ flights[i].fuelQueuePosition = NULL
  /\ Len(flights) >= 10

\* C15: the crisis state is a singleton.  At most one crisis record exists;
\* it is created by an activate and by nothing else, every later activate
\* and deactivate keeps that one record, and its bowserCount stays 4 and its
\* manualPumpSpeed stays 500.
C15_CrisisSingleton ==
  [][ /\ Len(crisis') <= 1
      /\ crisis' # <<>>
           => crisis'[1].bowserCount = 4 /\ crisis'[1].manualPumpSpeed = 500
      /\ (crisis = <<>> /\ crisis' # <<>>) => Activate
      /\ (crisis = <<>> /\ resp'.op = "activate" /\ Activate) => Len(crisis') = 1
      /\ crisis # <<>>
           => /\ Len(crisis') = 1
              /\ crisis'[1].id = crisis[1].id
              /\ crisis'[1].bowserCount = crisis[1].bowserCount
              /\ crisis'[1].manualPumpSpeed = crisis[1].manualPumpSpeed
              /\ (resp'.op = "deactivate" /\ Deactivate) => ~crisis'[1].fuelCrisisActive
              /\ (resp'.op = "activate" /\ Activate) => crisis'[1].fuelCrisisActive ]_vars

\* the one record has been switched off and on again at a later time
C15_Witness ==
  /\ lastOp = "activate" /\ prevOp = "deactivate"
  /\ Len(crisis) = 1
  /\ crisis[1].fuelCrisisActive
  /\ crisis[1].activatedAt > BootTime
  /\ rosters >= 1

\* C17: a predict request with an invalid parameter (an aircraftType that is
\* neither Narrow nor Wide, or a negative quantity) is refused with a client
\* error before any computation: it gets status 400 and no prediction.
C17_InvalidParametersRejected ==
  ( /\ resp.op = "predict"
    /\ \/ resp.input.aircraftType \notin {"Narrow", "Wide"}
       \/ resp.input.fuelLiters < 0 \/ resp.input.bagsCount < 0
       \/ resp.input.priorityBags < 0 \/ resp.input.mealsQty < 0
       \/ resp.input.specialMeals < 0 )
    => /\ resp.status = 400
       /\ "result" \notin DOMAIN resp

\* C18: for every simulate request and every outcome of the draws the
\* percentiles satisfy p50 <= p75 <= p90, each being the order statistic
\* sorted[floor(simulations * f)] of the ascending-sorted trial values, for
\* f = 0.50, 0.75, 0.90: fewer than k + 1 trials lie strictly below the
\* value at 0-based place k, and more than k trials lie at or below it.
C18_PercentilesOrdered ==
  resp.op = "montecarlo"
    => LET tat(i)   == resp.drawn[i].tat
           n        == Len(resp.drawn)
           Below(v) == Cardinality({ i \in 1..n : tat(i) < v })
           UpTo(v)  == Cardinality({ i \in 1..n : tat(i) <= v })
           IsOrderStatistic(v, k) ==
             /\ \E i \in 1..n : tat(i) = v
             /\ Below(v) <= k /\ k < UpTo(v)
       IN /\ resp.result.p50 <= resp.result.p75
          /\ resp.result.p75 <= resp.result.p90
          /\ IsOrderStatistic(resp.result.p50, (n * 50) \div 100)
          /\ IsOrderStatistic(resp.result.p75, (n * 75) \div 100)
          /\ IsOrderStatistic(resp.result.p90, (n * 90) \div 100)

\* a simulation whose three percentiles are three different trial values
\* drawn out of order
C18_Witness ==
  /\ resp.op = "montecarlo"
  /\ resp.result.p50 < resp.result.p75
  /\ resp.result.p75 < resp.result.p90
  /\ resp.drawn[1].tat > resp.drawn[Len(resp.drawn)].tat

\* C19: the histogram is the exact sparse binning of the trial values: a
\* value v is counted once in the even bin b with b <= v <= b + 1 (47 in
\* bin 46, 48 in bin 48), only bins with a positive count are emitted, the
\* bins are distinct and ascending, and the counts sum to the number of
\* trials.
C19_HistogramExact ==
  resp.op = "montecarlo"
    => LET h      == resp.result.histogramData
           tat(i) == resp.drawn[i].tat
           n      == Len(resp.drawn)
           InBin(v, b) == b % 2 = 0 /\ b <= v /\ v <= b + 1
       IN /\ \A e \in 1..Len(h) :
               /\ h[e].count = Cardinality({ i \in 1..n : InBin(tat(i), h[e].bin) })
               /\ h[e].count > 0
          /\ \A i \in 1..n : \E e \in 1..Len(h) : InBin(tat(i), h[e].bin)
          /\ \A e \in 1..(Len(h) - 1) : h[e].bin < h[e + 1].bin
          /\ SumSeq([ e \in 1..Len(h) |-> h[e].count ]) = n
          /\ n = simulations
          /\ (\E i \in 1..n : tat(i) = 47) => \E e \in 1..Len(h) : h[e].bin = 46
          /\ (\E i \in 1..n : tat(i) = 48) => \E e \in 1..Len(h) : h[e].bin = 48

\* a histogram with 47 counted in bin 46, 48 in bin 48 and a negative value
\* in the bin below it
C19_Witness ==
  /\ resp.op = "montecarlo"
  /\ Len(resp.result.histogramData) = 3
  /\ resp.result.histogramData[1].bin = 0 - 4
  /\ resp.result.histogramData[2] = [bin |-> 46, count |-> 2]
  /\ resp.result.histogramData[3].bin = 48

\* C20: roster synthesis is all-or-nothing.  When a registry operation
\* rejects during an activate, the flights that activate created are either
\* none or the whole roster, every landed one of the first three with its
\* gate and bowser slot.
C20_RosterAllOrNothing ==
  [][ (\E k \in 0..MaxAbortStep : ActivateAbort(k))
        => LET created == { i \in 1..Len(flights') : flights'[i].id >= nextId }
           IN \/ created = {}
              \/ /\ Cardinality(created) = Len(divertedFlights)
                 /\ Cardinality({ i \in created :
                       /\ flights'[i].gateId # NULL
                       /\ flights'[i].fuelQueuePosition \in 1..3
                       /\ flights'[i].predictedTat # NULL }) = 3 ]_vars

\* C21: after the activation that synthesizes the roster (the write before it
\* was a deactivate, which leaves no DIVERTED flight), exactly the roster
\* flights whose arrival time is not after the activation instant hold a bowser
\* slot and a gate: the k-th in arrival order holds slot k and gate G(4+k),
\* which points back at it; a flight still inbound holds neither.
C21_RosterSlotsByArrival ==
  (lastOp = "activate" /\ prevOp = "deactivate" /\ crisis # <<>>) =>
    LET t == crisis[1].activatedAt
        D == SelectSeq(flights, IsDiverted)
    IN \A i \in 1..Len(D) :
         LET f    == D[i]
             rank == 1 + Cardinality({ j \in 1..Len(D) :
                                         D[j].arrivalTime < f.arrivalTime })
         IN IF f.arrivalTime <= t
            THEN /\ rank \in 1..3
                 /\ f.fuelQueuePosition = rank
                 /\ f.gateId # NULL
                 /\ gates[f.gateId].gateNumber = GateName(4 + rank)
                 /\ gates[f.gateId].status = "ACTIVE"
                 /\ gates[f.gateId].currentFlightId = f.id
            ELSE f.fuelQueuePosition = NULL /\ f.gateId = NULL

\* a synthesized roster: three landed flights on slots 1..3 and two inbound
C21_Witness ==
  /\ lastOp = "activate" /\ prevOp = "deactivate" /\ crisis # <<>>
  /\ Cardinality({ i \in 1..Len(flights) :
                     /\ IsDiverted(flights[i])
                     /\ flights[i].arrivalTime <= crisis[1].activatedAt
                     /\ flights[i].fuelQueuePosition \in 1..3 }) = 3
  /\ Cardinality({ i \in 1..Len(flights) :
                     /\ IsDiverted(flights[i])
                     /\ flights[i].arrivalTime > crisis[1].activatedAt
                     /\ flights[i].gateId = NULL }) = 2

C23_CheckThenCreate ==
  [][ \A p \in Procs :
        (procs[p].kind = "activate" /\ procs[p].pc = "getDivertedFlights"
           /\ procs'[p] # procs[p])
          => IF \A i \in 1..Len(flights) : flights[i].status # "DIVERTED"
             THEN procs'[p].pc = "selectGates"
             ELSE procs'[p].pc = "getFlights" ]_vars

\* both handlers have answered and two DIVERTED flights carry each flight
\* number of the roster
C23_Witness ==
  /\ AllIdle /\ lastOp = "activate" /\ prevOp = "activate"
  /\ \A k \in 1..Len(divertedFlights) :
       Cardinality({ i \in 1..Len(flights) :
                       /\ flights[i].status = "DIVERTED"
                       /\ flights[i].flightNumber = divertedFlights[k].flightNumber })
         = 2

\* C24: while the crisis is active, every poll of the diverted view leaves each
\* diverted flight in this state: a flight still inbound at the clock of the
\* poll holds no bowser slot and no gate, and a flight that has landed by then
\* holds a bowser slot in 1..3 and a gate.
C24_PollAssignsLandedFlights ==
  (resp.op = "diverted-live" /\ crisis # <<>> /\ crisis[1].fuelCrisisActive) =>
    \A i \in 1..Len(resp.body) :
      \A k \in 1..Len(flights) :
        flights[k].id = resp.body[i].id =>
          IF flights[k].arrivalTime <= resp.at
          THEN flights[k].fuelQueuePosition \in 1..3 /\ flights[k].gateId # NULL
          ELSE flights[k].fuelQueuePosition = NULL /\ flights[k].gateId = NULL

\* C25: while the crisis is active, the row at the head of the domestic queue
\* reports live progress: its elapsed fuelling time is positive once the clock
\* has moved past the activation that put it at the head, its remaining time
\* is max(0, fuelDuration - elapsed), and its progress is 100 once a full
\* fuelDuration has passed since that activation.
C25_HeadFuellingProgress ==
  (/\ resp.op = "fuel-queue-live"
   /\ crisis # <<>> /\ crisis[1].fuelCrisisActive
   /\ resp.domesticQueue # <<>>) =>
    LET head  == resp.domesticQueue[1]
        since == resp.at - crisis[1].activatedAt
    IN /\ since > 0 => head.fuelElapsed > 0
       /\ head.fuelRemaining = Max(0, head.fuelDuration - head.fuelElapsed)
       /\ since >= head.fuelDuration => head.fuelProgress = 100

\* C26: in the diverted view, a landed flight that was given a gate and a
\* bowser shows the time elapsed since that assignment (fuelStartTime), 0 at
\* the instant of the assignment, and an accrued penalty of elapsed * rate.
C26_ElapsedSinceAssignment ==
  resp.op = "diverted-live" =>
    \A i \in 1..Len(resp.body) :
      LET r == resp.body[i]
      IN (r.arrivalTime <= resp.at /\ r.fuelStartTime # NULL) =>
           /\ r.elapsedMin = Max(0, resp.at - r.fuelStartTime)
           /\ r.penaltyAccrued = r.elapsedMin * r.penaltyRatePerMin

\* C27: referential integrity under interleaving.  In every state reachable by
\* activate and deactivate requests interleaved at the awaits of the registry,
\* a gate's non-null currentFlightId is the id of a flight in the registry.
C27_GateRefersToExistingFlight ==
  \A g \in 1..Len(gates) :
    gates[g].currentFlightId # NULL =>
      \E k \in 1..Len(flights) : flights[k].id = gates[g].currentFlightId

\* C28: while the crisis flag is active, every ACTIVE or SCHEDULED domestic
\* flight (penalty rate 5400) has a fuel-queue position and a stored
\* prediction that contains the manual fuelling time (liters / 500 with the
\* other three services and the padding, queue wait on top); the positions of
\* those flights are exactly 1..n, each taken once.
C28_DomesticQueuedWhileActive ==
  (crisis # <<>> /\ crisis[1].fuelCrisisActive) =>
    LET D == SelectSeq(flights, IsDomestic)
    IN /\ \A i \in 1..Len(D) :
            /\ D[i].fuelQueuePosition # NULL
            /\ D[i].predictedTat >=
                 Round(15 * D[i].bagsCount + 10 * D[i].priorityBags, 100)
                 + Round(D[i].fuelLiters, 500) + CateringDuration(D[i])
                 + SafetyCheckDuration(D[i]) + 10
       /\ { D[i].fuelQueuePosition : i \in 1..Len(D) } = 1..Len(D)

\* C29: in every state reached by seeding, activate and deactivate served one
\* at a time, a gate is FREE exactly when its currentFlightId is null, and a
\* non-null currentFlightId is the id of a flight in the registry.
C29_GateStatusMatchesOccupant ==
  \A g \in 1..Len(gates) :
    /\ gates[g].status = "FREE" <=> gates[g].currentFlightId = NULL
    /\ gates[g].currentFlightId # NULL =>
         \E k \in 1..Len(flights) : flights[k].id = gates[g].currentFlightId

\* the roster has been cleared and synthesized again: G5 is occupied by a
\* flight created after the seed, G8 is free
C29_Witness ==
  /\ lastOp = "activate" /\ prevOp = "deactivate"
  /\ Len(gates) = 8
  /\ gates[5].status = "ACTIVE"
  /\ \E k \in 1..Len(flights) :
       /\ flights[k].id = gates[5].currentFlightId
       /\ flights[k].status = "DIVERTED"
  /\ gates[8].status = "FREE" /\ gates[8].currentFlightId = NULL

\* C30: crisis activate and deactivate write the international gates G5, G6,
\* G7 only: each leaves the status and currentFlightId of G1..G4 and of G8 as
\* they were, and G8 is FREE in every state once the gates exist.
C30_OnlyInternationalGatesChange ==
  [][ /\ gates' # <<>> => gates'[8].status = "FREE"
      /\ ((resp'.op = "activate" /\ Activate)
            \/ (resp'.op = "deactivate" /\ Deactivate))
           => \A g \in {1, 2, 3, 4, 8} :
                /\ gates'[g].gateNumber = GateName(g)
                /\ gates'[g].status = gates[g].status
                /\ gates'[g].currentFlightId = gates[g].currentFlightId ]_vars

\* a deactivate has freed G5, G6 and G7 while G1..G4 keep their flights
C30_Witness ==
  /\ resp.op = "deactivate" /\ Len(gates) = 8
  /\ \A g \in 5..7 : gates[g].status = "FREE" /\ gates[g].currentFlightId = NULL
  /\ \A g \in 1..4 : gates[g].status = "ACTIVE" /\ gates[g].currentFlightId # NULL
  /\ gates[8].status = "FREE"

====
